---------------------------- MODULE Spec2Model ----------------------------
(***************************************************************************)
(* Model of src/options.rs: CompilerOptions, default_for and               *)
(* to_npx_command, the rendering of compiler options into the command line *)
(* of the AssemblyScript compiler.                                         *)
(*                                                                         *)
(* A string is a sequence of one-character strings, so that substrings,    *)
(* whitespace tokens and quoting are computed on the rendered text itself. *)
(***************************************************************************)
EXTENDS Integers, Sequences, FiniteSets, TLC

VARIABLES
    features,     \* the cargo features the crate is built with
    options,      \* the CompilerOptions value
    source_path,  \* argument of to_npx_command
    output_path,  \* argument of to_npx_command
    iter,         \* the order in which the last call visited flag_use
    result,       \* the string the last call returned
    calls         \* number of calls of to_npx_command on this options value

vars == <<features, options, source_path, output_path, iter, result, calls>>

\* ------------------------------------------------------------------ bounds

\* Largest number of entries of flag_use.
MaxEntries == 2

\* Largest number of calls of to_npx_command on one options value.
MaxCalls == 2

\* ------------------------------------------------------------ input domains

\* enum OptimizationStrategy
OptimizationStrategy == {"O1", "O2", "O3"}

\* enum RuntimeStrategy
RuntimeStrategy == {"Incremental", "Minimal", "Stub"}

\* The cargo features a build enables select the launcher, and a build with
\* none of them does not compile. The builds considered: each launcher is
\* selected by one of them, in the second one by cfg_if's order.
FeatureSets == {{"nodejs"}, {"bun", "deno"}, {"deno"}}

\* Paths handed to to_npx_command: the empty path, a plain one, and one that
\* holds a double quote, spaces and a backslash.
PlainPath == <<"p">>

Paths == {<<>>, PlainPath, <<"\""," ","-","O","1"," ","\\">> (* `" -O1 \` *)}

\* Values of the source field.
Sources == {<<>>}

\* Entries that flag_use is filled from: a plain binding, a binding of the
\* reserved key abort, and one whose key and value are empty.
FlagPool == (<<"x">> :> <<"y">>) @@ (<<"a","b","o","r",
        "t">> (* `abort` *) :> <<"v">>) @@ (<<>> :> <<>>)

\* HashMap<String, String>: a function from its keys to their values.
FlagUseMaps ==
    {[k \in K |-> FlagPool[k]] :
        K \in {S \in SUBSET DOMAIN FlagPool : Cardinality(S) <= MaxEntries}}

\* struct CompilerOptions: every field is public, so every value can be built.
CompilerOptions ==
    [optimization_strategy : OptimizationStrategy,
     enable_bulk_memory : BOOLEAN,
     enable_sign_extension : BOOLEAN,
     enable_nontrapping_f2i : BOOLEAN,
     enable_export_memory : BOOLEAN,
     flag_use : FlagUseMaps,
     trap_on_abort : BOOLEAN,
     runtime : RuntimeStrategy,
     source : Sources]

\* --------------------------------------------------------- library pieces

\* HashMap::default() / HashMap::new(): the empty map.
HashMapDefault == [k \in {} |-> <<>>]

\* HashMap::is_empty
is_empty(m) == DOMAIN m = {}

\* HashMap::iter visits every entry once, in an arbitrary order: the orders a
\* call may see are the permutations of the keys.
Iter(m) ==
    {s \in [1 .. Cardinality(DOMAIN m) -> DOMAIN m] :
        \A i, j \in 1 .. Cardinality(DOMAIN m) : s[i] = s[j] => i = j}

\* [String]::join(sep)
RECURSIVE join(_, _)
join(ts, sep) ==
    IF ts = <<>> THEN <<>>
    ELSE IF Len(ts) = 1 THEN ts[1]
    ELSE ts[1] \o sep \o join(Tail(ts), sep)

\* format!("{key}={value}")
format_key_value(key, value) == key \o <<"=">> \o value

\* The escape of one character in the Debug form of a path (of the characters
\* of Paths, the double quote and the backslash are written with a backslash).
escape_debug(c) ==
    IF c = "\"" THEN <<"\\","\"">>
    ELSE IF c = "\\" THEN <<"\\","\\">>
    ELSE <<c>>

\* {path:?}: the path between double quotes, its characters escaped.
RECURSIVE escaped(_)
escaped(p) == IF p = <<>> THEN <<>> ELSE escape_debug(Head(p)) \o escaped(Tail(p))

Debug(p) == <<"\"">> \o escaped(p) \o <<"\"">>

\* ------------------------------------------------------------ the program

\* A faulty default_for: export-memory enabled by default.
default_for_exporting(library_source) ==
    [source |-> library_source,
     trap_on_abort |-> TRUE,
     enable_bulk_memory |-> FALSE,
     enable_nontrapping_f2i |-> FALSE,
     enable_export_memory |-> TRUE,
     enable_sign_extension |-> FALSE,
     flag_use |-> HashMapDefault,
     optimization_strategy |-> "O3",
     runtime |-> "Incremental"]

default_for(library_source) ==
    [source |-> library_source,
     trap_on_abort |-> TRUE,
     enable_bulk_memory |-> FALSE,
     enable_nontrapping_f2i |-> FALSE,
     enable_export_memory |-> FALSE,
     enable_sign_extension |-> FALSE,
     flag_use |-> HashMapDefault,
     optimization_strategy |-> "O3",
     runtime |-> "Incremental"]

flag_bulk_memory(self) ==
    IF self.enable_bulk_memory THEN <<>>
    ELSE
        <<"-","-","d","i","s","a","b","l","e"," ","b","u","l","k","-","m","e","m","o","r","y",
                " ">> (* `--disable bulk-memory ` *)

\* A faulty flag_sign_extension: an --enable flag in place of nothing.
flag_sign_extension_enabling(self) ==
    IF self.enable_sign_extension THEN
        <<"-","-","e","n","a","b","l","e"," ","s","i","g","n","-","e","x","t","e","n","s","i",
                "o","n"," ">> (* `--enable sign-extension ` *)
    ELSE
        <<"-","-","d","i","s","a","b","l","e"," ","s","i","g","n","-","e","x","t","e","n","s",
                "i","o","n"," ">> (* `--disable sign-extension ` *)

flag_sign_extension(self) ==
    IF self.enable_sign_extension THEN <<>>
    ELSE
        <<"-","-","d","i","s","a","b","l","e"," ","s","i","g","n","-","e","x","t","e","n","s",
                "i","o","n"," ">> (* `--disable sign-extension ` *)

flag_non_trapping_f2i(self) ==
    IF self.enable_nontrapping_f2i THEN <<>>
    ELSE
        <<"-","-","d","i","s","a","b","l","e"," ","n","o","n","t","r","a","p","p","i","n","g",
                "-","f","2","i"," ">> (* `--disable nontrapping-f2i ` *)

flag_export_memory(self) ==
    IF self.enable_export_memory THEN <<>>
    ELSE
        <<"-","-","n","o","E","x","p","o","r","t","M","e","m","o","r","y",
                " ">> (* `--noExportMemory ` *)

\* A faulty flag_runtime: the value attached to the flag with an equals sign.
flag_runtime_attached(self) ==
    CASE self.runtime = "Minimal" ->
            <<"-","-","r","u","n","t","i","m","e","=","m","i","n","i","m","a","l",
                    " ">> (* `--runtime=minimal ` *)
      [] self.runtime = "Incremental" ->
            <<"-","-","r","u","n","t","i","m","e","=","i","n","c","r","e","m","e","n","t","a",
                    "l"," ">> (* `--runtime=incremental ` *)
      [] self.runtime = "Stub" ->
            <<"-","-","r","u","n","t","i","m","e","=","s","t","u","b",
                    " ">> (* `--runtime=stub ` *)

flag_runtime(self) ==
    CASE self.runtime = "Minimal" ->
            <<"-","-","r","u","n","t","i","m","e"," ","m","i","n","i","m","a","l",
                    " ">> (* `--runtime minimal ` *)
      [] self.runtime = "Incremental" ->
            <<"-","-","r","u","n","t","i","m","e"," ","i","n","c","r","e","m","e","n","t","a",
                    "l"," ">> (* `--runtime incremental ` *)
      [] self.runtime = "Stub" ->
            <<"-","-","r","u","n","t","i","m","e"," ","s","t","u","b",
                    " ">> (* `--runtime stub ` *)

flag_optimization(self) ==
    CASE self.optimization_strategy = "O1" ->
            <<"-","O","1"," ">> (* `-O1 ` *)
      [] self.optimization_strategy = "O2" ->
            <<"-","O","2"," ">> (* `-O2 ` *)
      [] self.optimization_strategy = "O3" ->
            <<"-","O","3"," ">> (* `-O3 ` *)

\* The entries of flag_use in the order it visits them, as "key=value".
user_entries(self, it) ==
    [i \in 1 .. Len(it) |-> <<it[i], self.flag_use[it[i]]>>]

\* ("abort", "custom_abort")
trap_entry ==
    <<<<"a","b","o","r","t">> (* `abort` *),
      <<"c","u","s","t","o","m","_","a","b","o","r","t">> (* `custom_abort` *)>>

\* A faulty chain_trap: the trap's pair in front of the entries.
chain_trap_first(entries) == <<trap_entry>> \o entries

\* A faulty chain_trap: the trap's pair replaces an entry of the key abort,
\* as an insertion into the map would.
chain_trap_overwriting(entries) ==
    SelectSeq(entries, LAMBDA e : e[1] # trap_entry[1]) \o <<trap_entry>>

\* .chain(vec![("abort", "custom_abort")])
chain_trap(entries) == entries \o <<trap_entry>>

formatted(entries) ==
    [i \in 1 .. Len(entries) |-> format_key_value(entries[i][1], entries[i][2])]

\* A faulty flag_use: the trap's pair is chained whether or not the trap is on.
flag_use_always_chaining(self, it) ==
    CASE is_empty(self.flag_use) /\ ~self.trap_on_abort -> <<>>
      [] ~is_empty(self.flag_use) /\ ~self.trap_on_abort ->
            <<"-","-","u","s","e"," ">> (* `--use ` *)
                \o join(formatted(chain_trap(user_entries(self, it))), <<" ">>) \o <<" ">>
      [] self.trap_on_abort ->
            <<"-","-","l","i","b"," ","."," ","-","-","u","s","e"," ">> (* `--lib . --use ` *)
                \o join(formatted(chain_trap(user_entries(self, it))), <<" ">>) \o <<" ">>

\* A faulty flag_use: `--lib .` only when flag_use is empty.
flag_use_missing_lib(self, it) ==
    CASE is_empty(self.flag_use) /\ ~self.trap_on_abort -> <<>>
      [] ~is_empty(self.flag_use) /\ ~self.trap_on_abort ->
            <<"-","-","u","s","e"," ">> (* `--use ` *)
                \o join(formatted(user_entries(self, it)), <<" ">>) \o <<" ">>
      [] is_empty(self.flag_use) /\ self.trap_on_abort ->
            <<"-","-","l","i","b"," ","."," ","-","-","u","s","e"," ">> (* `--lib . --use ` *)
                \o join(formatted(chain_trap(<<>>)), <<" ">>) \o <<" ">>
      [] ~is_empty(self.flag_use) /\ self.trap_on_abort ->
            <<"-","-","u","s","e"," ">> (* `--use ` *)
                \o join(formatted(chain_trap(user_entries(self, it))), <<" ">>) \o <<" ">>

flag_use(self, it) ==
    CASE is_empty(self.flag_use) /\ ~self.trap_on_abort -> <<>>
      [] ~is_empty(self.flag_use) /\ ~self.trap_on_abort ->
            <<"-","-","u","s","e"," ">> (* `--use ` *)
                \o join(formatted(user_entries(self, it)), <<" ">>) \o <<" ">>
      [] self.trap_on_abort ->
            <<"-","-","l","i","b"," ","."," ","-","-","u","s","e"," ">> (* `--lib . --use ` *)
                \o join(formatted(chain_trap(user_entries(self, it))), <<" ">>) \o <<" ">>

\* fn runtime(): the launcher, the first of the enabled features in cfg_if's order.
runtime(feats) ==
    IF "nodejs" \in feats THEN
        <<"n","o","d","e"," ",".","/","n","o","d","e","_","m","o","d","u","l","e","s","/","a",
                "s","s","e","m","b","l","y","s","c","r","i","p","t","/","b","i","n","/","a","s",
                "c",".","j","s">> (* `node ./node_modules/assemblyscript/bin/asc.js` *)
    ELSE IF "bun" \in feats THEN
        <<"~","/",".","b","u","n","/","b","i","n","/","b","u","n","x"," ","a","s","s","e","m",
                "b","l","y","s","c","r","i","p","t","@","0",".","2","7",".","2","7","/","a","s",
                "c">> (* `~/.bun/bin/bunx assemblyscript@0.27.27/asc` *)
    ELSE
        <<"d","e","n","o"," ","r","u","n"," ","-","-","a","l","l","o","w","-","r","e","a","d",
                " ","-","-","a","l","l","o","w","-","w","r","i","t","e"," ","-","-","a","l","l",
                "o","w","-","e","n","v"," ","'","n","p","m",":","a","s","s","e","m","b","l","y",
                "s","c","r","i","p","t","@","0",".","2","7",".","2","7","/","a","s","c",
                "'">> (* `deno run --allow-read --allow-write --allow-env 'npm:assemblyscript@0.27.27/asc'` *)

\* A faulty to_npx_command: --noExportMemory before the runtime flag.
to_npx_command_reordered(self, sp, op, it, feats) ==
    runtime(feats) \o <<" ">> \o Debug(sp)
        \o <<" ","-","o"," ">> (* ` -o ` *)
        \o Debug(op) \o <<" ">>
        \o flag_optimization(self)
        \o flag_bulk_memory(self)
        \o flag_sign_extension(self)
        \o flag_non_trapping_f2i(self)
        \o flag_export_memory(self)
        \o flag_runtime(self)
        \o flag_use(self, it)

to_npx_command(self, sp, op, it, feats) ==
    runtime(feats) \o <<" ">> \o Debug(sp)
        \o <<" ","-","o"," ">> (* ` -o ` *)
        \o Debug(op) \o <<" ">>
        \o flag_optimization(self)
        \o flag_bulk_memory(self)
        \o flag_sign_extension(self)
        \o flag_non_trapping_f2i(self)
        \o flag_runtime(self)
        \o flag_export_memory(self)
        \o flag_use(self, it)

\* ---------------------------------------------------------------- actions

\* The four toggles of the options are all false or all true.
UniformToggles(o) ==
    /\ o.enable_sign_extension = o.enable_bulk_memory
    /\ o.enable_nontrapping_f2i = o.enable_bulk_memory
    /\ o.enable_export_memory = o.enable_bulk_memory

\* The inputs: every options value with plain paths, and every pair of paths
\* with the options whose toggles are uniform; each under every build.
Init ==
    /\ features \in FeatureSets
    /\ options \in CompilerOptions
    /\ source_path \in Paths
    /\ output_path \in Paths
    /\ \/ UniformToggles(options)
       \/ source_path = PlainPath /\ output_path = PlainPath
    /\ iter = <<>>
    /\ result = <<>>
    /\ calls = 0

\* CompilerOptions::default_for(library_source): a fresh options value.
DefaultFor(library_source) ==
    /\ options' = default_for(library_source)
    /\ iter' = <<>>
    /\ result' = <<>>
    /\ calls' = 0
    /\ UNCHANGED <<features, source_path, output_path>>

\* A faulty call: it refuses a binding of the reserved key abort under the trap.
ToNpxCommandRejecting ==
    /\ calls < MaxCalls
    /\ ~(options.trap_on_abort /\ trap_entry[1] \in DOMAIN options.flag_use)
    /\ \E it \in Iter(options.flag_use) :
        /\ iter' = it
        /\ result' = to_npx_command(options, source_path, output_path, it, features)
    /\ calls' = calls + 1
    /\ UNCHANGED <<features, options, source_path, output_path>>

\* A faulty call: under the trap it also inserts the trap's pair into flag_use.
ToNpxCommandInserting ==
    /\ calls < MaxCalls
    /\ \E it \in Iter(options.flag_use) :
        /\ iter' = it
        /\ result' = to_npx_command(options, source_path, output_path, it, features)
    /\ options' =
        IF options.trap_on_abort
        THEN [options EXCEPT !.flag_use =
                [k \in DOMAIN @ \cup {trap_entry[1]} |->
                    IF k = trap_entry[1] THEN trap_entry[2] ELSE @[k]]]
        ELSE options
    /\ calls' = calls + 1
    /\ UNCHANGED <<features, source_path, output_path>>

\* options.to_npx_command(&source_path, &output_path)
ToNpxCommand ==
    /\ calls < MaxCalls
    /\ \E it \in Iter(options.flag_use) :
        /\ iter' = it
        /\ result' = to_npx_command(options, source_path, output_path, it, features)
    /\ calls' = calls + 1
    /\ UNCHANGED <<features, options, source_path, output_path>>

Next ==
    \/ \E library_source \in Sources : DefaultFor(library_source)
    \/ ToNpxCommand

Spec == Init /\ [][Next]_vars

\* ------------------------------------------------- reading rendered text

\* The positions of s where a copy of the non-empty string t may start.
Starts(s, t) == {i \in 1 .. (Len(s) - Len(t) + 1) : s[i] = t[1]}

\* The string t stands in s at position i.
MatchAt(s, t, i) ==
    /\ i >= 1
    /\ i + Len(t) - 1 <= Len(s)
    /\ \A j \in 1 .. Len(t) : s[i + j - 1] = t[j]

\* s.contains(t)
Contains(s, t) == t = <<>> \/ \E i \in Starts(s, t) : MatchAt(s, t, i)

EndsWith(s, t) == Len(t) <= Len(s) /\ MatchAt(s, t, Len(s) - Len(t) + 1)

StartsWith(s, t) == MatchAt(s, t, 1)

\* The positions of s where a whitespace-separated token starts.
TokenStarts(s) == {i \in 1 .. Len(s) : s[i] # " " /\ (i = 1 \/ s[i - 1] = " ")}

\* t (non-empty, starting and ending with no space) is a run of whole
\* whitespace-separated tokens of s at i.
TokenAt(s, t, i) ==
    /\ s[i] = t[1]
    /\ MatchAt(s, t, i)
    /\ (i = 1 \/ s[i - 1] = " ")
    /\ (i + Len(t) > Len(s) \/ s[i + Len(t)] = " ")

\* Number of the token starts ts of s at which s holds the token (or run of
\* tokens) t.
TokenCount(s, ts, t) == Cardinality({i \in ts : TokenAt(s, t, i)})

HasSpace(s) == \E i \in 1 .. Len(s) : s[i] = " "

\* The path holds a character that its quoted form writes differently.
NeedsEscape(p) == \E i \in 1 .. Len(p) : p[i] \in {"\"", "\\"}

Rendered == calls >= 1

TypeOK ==
    /\ features \in FeatureSets
    /\ options \in CompilerOptions
    /\ source_path \in Paths
    /\ output_path \in Paths
    /\ calls \in 0 .. MaxCalls
    /\ iter \in Seq(DOMAIN FlagPool)
    /\ Rendered => iter \in Iter(options.flag_use)

\* ------------------------------------------------------------------ C1

\* The options of the claim, field by field.
IsDefault(o) ==
    /\ o.trap_on_abort
    /\ ~o.enable_bulk_memory
    /\ ~o.enable_sign_extension
    /\ ~o.enable_nontrapping_f2i
    /\ ~o.enable_export_memory
    /\ o.optimization_strategy = "O3"
    /\ o.runtime = "Incremental"
    /\ o.flag_use = <<>>

\* What follows the output path when the options are the default ones.
C1_Tail ==
    <<" ","-","O","3"," ">> (* ` -O3 ` *) \o <<"-","-","d","i","s","a","b","l","e"," ","b","u",
            "l","k","-","m","e","m","o","r","y"," ">> (* `--disable bulk-memory ` *) \o <<"-",
            "-","d","i","s","a","b","l","e"," ","s","i","g","n","-","e","x","t","e","n","s","i",
            "o","n"," ">> (* `--disable sign-extension ` *)
        \o <<"-","-","d","i","s","a","b","l","e"," ","n","o","n","t","r","a","p","p","i","n",
                "g","-","f","2","i"," ">> (* `--disable nontrapping-f2i ` *) \o <<"-","-","r",
                "u","n","t","i","m","e"," ","i","n","c","r","e","m","e","n","t","a","l",
                " ">> (* `--runtime incremental ` *)
        \o <<"-","-","n","o","E","x","p","o","r","t","M","e","m","o","r","y",
                " ">> (* `--noExportMemory ` *) \o <<"-","-","l","i","b"," ","."," ","-","-",
                "u","s","e"," ","a","b","o","r","t","=","c","u","s","t","o","m","_","a","b","o",
                "r","t"," ">> (* `--lib . --use abort=custom_abort ` *)

\* C1 as stated: for the options default_for builds and any output path P, the
\* rendered string contains `-o "P"` followed by the default flags, P written
\* between the quotes as it is.
C1_Original ==
    (Rendered /\ options = default_for(options.source)) =>
        /\ IsDefault(options)
        /\ Contains(result, <<"-","o"," ",
                "\"">> (* `-o "` *) \o output_path \o <<"\"">> \o C1_Tail)

\* C1 amended: default_for builds the options of the claim; the rendered string
\* holds ` -o "` and ends with the closing quote of the output path followed by
\* the default flags; and when P holds no character that the quoted form
\* escapes, it contains `-o "P"` followed by the default flags.
C1_Default ==
    (Rendered /\ options = default_for(options.source)) =>
        /\ IsDefault(options)
        /\ Contains(result, <<" ","-","o"," ","\"">> (* ` -o "` *))
        /\ EndsWith(result, <<"\"">> \o C1_Tail)
        /\ ~NeedsEscape(output_path) =>
                Contains(result, <<"-","o"," ",
                        "\"">> (* `-o "` *) \o output_path \o <<"\"">> \o C1_Tail)

\* C1 witness: the default options were rendered for a plain output path.
C1_Witness ==
    /\ Rendered
    /\ IsDefault(options)
    /\ options = default_for(options.source)
    /\ output_path = <<"p">>
    /\ ~NeedsEscape(output_path)

\* ------------------------------------------------------------------ C2

\* s without its first n characters.
Drop(s, n) == SubSeq(s, n + 1, Len(s))

\* s without the clause t in front of it, when it stands there.
Strip(s, t) == IF StartsWith(s, t) THEN Drop(s, Len(t)) ELSE s

C2_Launchers ==
    {<<"n","o","d","e"," ",".","/","n","o","d","e","_","m","o","d","u","l","e","s","/","a","s",
            "s","e","m","b","l","y","s","c","r","i","p","t","/","b","i","n","/","a","s","c",".",
            "j","s">> (* `node ./node_modules/assemblyscript/bin/asc.js` *),
     <<"~","/",".","b","u","n","/","b","i","n","/","b","u","n","x"," ","a","s","s","e","m","b",
             "l","y","s","c","r","i","p","t","@","0",".","2","7",".","2","7","/","a","s",
             "c">> (* `~/.bun/bin/bunx assemblyscript@0.27.27/asc` *),
     <<"d","e","n","o"," ","r","u","n"," ","-","-","a","l","l","o","w","-","r","e","a","d"," ",
             "-","-","a","l","l","o","w","-","w","r","i","t","e"," ","-","-","a","l","l","o",
             "w","-","e","n","v"," ","'","n","p","m",":","a","s","s","e","m","b","l","y","s",
             "c","r","i","p","t","@","0",".","2","7",".","2","7","/","a","s","c",
             "'">> (* `deno run --allow-read --allow-write --allow-env 'npm:assemblyscript@0.27.27/asc'` *)}

C2_Optimizations == {<<"-","O","1"," ">> (* `-O1 ` *), <<"-","O","2"," ">> (* `-O2 ` *), <<"-",
        "O","3"," ">> (* `-O3 ` *)}

C2_Runtimes == {<<"-","-","r","u","n","t","i","m","e"," ","m","i","n","i","m","a","l",
        " ">> (* `--runtime minimal ` *), <<"-","-","r","u","n","t","i","m","e"," ","i","n","c",
        "r","e","m","e","n","t","a","l"," ">> (* `--runtime incremental ` *), <<"-","-","r","u",
        "n","t","i","m","e"," ","s","t","u","b"," ">> (* `--runtime stub ` *)}

\* The lengths the quoted form of p may have: two quotes, and every character
\* written once or as an escape of two.
QuotedLengths(p) == (Len(p) + 2) .. (2 * Len(p) + 2)

\* r is: the optimization flag, then those of the three --disable flags that
\* are there, in their order, then the runtime flag, then --noExportMemory if
\* it is there, then nothing or the --use / --lib clause.
C2_FlagsInOrder(r) ==
    \E o \in C2_Optimizations :
        /\ StartsWith(r, o)
        /\ LET r1 == Drop(r, Len(o))
               r2 == Strip(r1, <<"-","-","d","i","s","a","b","l","e"," ","b","u","l","k","-",
                       "m","e","m","o","r","y"," ">> (* `--disable bulk-memory ` *))
               r3 == Strip(r2, <<"-","-","d","i","s","a","b","l","e"," ","s","i","g","n","-",
                       "e","x","t","e","n","s","i","o","n",
                       " ">> (* `--disable sign-extension ` *))
               r4 == Strip(r3, <<"-","-","d","i","s","a","b","l","e"," ","n","o","n","t","r",
                       "a","p","p","i","n","g","-","f","2","i",
                       " ">> (* `--disable nontrapping-f2i ` *))
           IN  \E rt \in C2_Runtimes :
                /\ StartsWith(r4, rt)
                /\ LET r5 == Drop(r4, Len(rt))
                       r6 == Strip(r5, <<"-","-","n","o","E","x","p","o","r","t","M","e","m",
                               "o","r","y"," ">> (* `--noExportMemory ` *))
                   IN  \/ r6 = <<>>
                       \/ StartsWith(r6, <<"-","-","u","s","e"," ">> (* `--use ` *))
                       \/ StartsWith(r6, <<"-","-","l","i","b"," ","."," ","-","-","u","s","e",
                               " ">> (* `--lib . --use ` *))

\* C2: the rendered string is the launcher, the quoted source path, `-o` with
\* the quoted output path, and then the flags, each clause that is emitted
\* standing after the clauses that precede it in the fixed order.
C2_FixedOrder ==
    Rendered =>
        \E l \in C2_Launchers :
            /\ StartsWith(result, l \o <<" ","\"">>)
            /\ \E n1 \in QuotedLengths(source_path) :
                \* the quoted source path is the n1 characters from Len(l) + 2 on
                /\ MatchAt(result, <<"\""," ","-","o"," ",
                        "\"">> (* `" -o "` *), Len(l) + n1 + 1)
                /\ \E n2 \in QuotedLengths(output_path) :
                    \* the quoted output path is the n2 characters that follow
                    /\ MatchAt(result, <<"\""," ">>, Len(l) + n1 + n2 + 5)
                    /\ C2_FlagsInOrder(Drop(result, Len(l) + n1 + n2 + 6))

\* C2 witness: a rendering in which every clause is emitted.
C2_Witness ==
    /\ Rendered
    /\ ~options.enable_bulk_memory
    /\ ~options.enable_sign_extension
    /\ ~options.enable_nontrapping_f2i
    /\ ~options.enable_export_memory
    /\ options.trap_on_abort
    /\ options.flag_use # <<>>
    /\ source_path # <<>>
    /\ output_path # <<>>

\* ------------------------------------------------------------------ C3

ToggleFields ==
    {"enable_bulk_memory", "enable_sign_extension", "enable_nontrapping_f2i",
     "enable_export_memory"}

\* The clause each toggle stands for.
C3_Clause(f) ==
    CASE f = "enable_bulk_memory" ->
            <<"-","-","d","i","s","a","b","l","e"," ","b","u","l","k","-","m","e","m","o","r",
                    "y"," ">> (* `--disable bulk-memory ` *)
      [] f = "enable_sign_extension" ->
            <<"-","-","d","i","s","a","b","l","e"," ","s","i","g","n","-","e","x","t","e","n",
                    "s","i","o","n"," ">> (* `--disable sign-extension ` *)
      [] f = "enable_nontrapping_f2i" ->
            <<"-","-","d","i","s","a","b","l","e"," ","n","o","n","t","r","a","p","p","i","n",
                    "g","-","f","2","i"," ">> (* `--disable nontrapping-f2i ` *)
      [] f = "enable_export_memory" ->
            <<"-","-","n","o","E","x","p","o","r","t","M","e","m","o","r","y",
                    " ">> (* `--noExportMemory ` *)

C3_Optimization(o) ==
    CASE o.optimization_strategy = "O1" ->
            <<"-","O","1"," ">> (* `-O1 ` *)
      [] o.optimization_strategy = "O2" ->
            <<"-","O","2"," ">> (* `-O2 ` *)
      [] o.optimization_strategy = "O3" ->
            <<"-","O","3"," ">> (* `-O3 ` *)

\* s without the n characters from position i on.
RemoveAt(s, i, n) == SubSeq(s, 1, i - 1) \o SubSeq(s, i + n, Len(s))

\* C3: for each toggle that is false, the rendered string holds the toggle's
\* clause at a place such that the string without it is exactly what the same
\* options with that toggle set to true render to (same paths, same order of
\* flag_use); and with the three capability toggles true the optimization flag
\* is immediately followed by the --runtime flag.
C3_Toggles ==
    Rendered =>
        /\ LET dashes == {i \in 1 .. Len(result) : result[i] = "-"}
           IN  \A f \in ToggleFields :
                ~options[f] =>
                    \E i \in dashes :
                        /\ MatchAt(result, C3_Clause(f), i)
                        /\ RemoveAt(result, i, Len(C3_Clause(f)))
                             = to_npx_command([options EXCEPT ![f] = TRUE], source_path,
                                              output_path, iter, features)
        /\ (/\ options.enable_bulk_memory
            /\ options.enable_sign_extension
            /\ options.enable_nontrapping_f2i) =>
                Contains(result, C3_Optimization(options) \o <<"-","-","r","u","n","t","i","m",
                        "e"," ">> (* `--runtime ` *))

\* C3 witness: a rendering with the three capability toggles true and the
\* export-memory toggle false, so that both parts of the claim are at work.
C3_Witness ==
    /\ Rendered
    /\ options.enable_bulk_memory
    /\ options.enable_sign_extension
    /\ options.enable_nontrapping_f2i
    /\ ~options.enable_export_memory
    /\ Contains(result, <<"-","-","n","o","E","x","p","o","r","t","M","e","m","o","r","y",
            " ">> (* `--noExportMemory ` *))

\* ------------------------------------------------------------------ C4

\* Tokens equal to -O1, -O2 or -O3, among the token starts ts of s.
OptimizationTokens(s, ts) ==
    TokenCount(s, ts, <<"-","O","1">> (* `-O1` *)) + TokenCount(s, ts, <<"-","O",
            "2">> (* `-O2` *)) + TokenCount(s, ts, <<"-","O","3">> (* `-O3` *))

\* --runtime tokens, and --runtime tokens followed by one of the values.
RuntimeTokens(s, ts) == TokenCount(s, ts, <<"-","-","r","u","n","t","i","m",
        "e">> (* `--runtime` *))

RuntimeValueTokens(s, ts) ==
    TokenCount(s, ts, <<"-","-","r","u","n","t","i","m","e"," ","m","i","n","i","m","a",
            "l">> (* `--runtime minimal` *)) + TokenCount(s, ts, <<"-","-","r","u","n","t","i",
            "m","e"," ","i","n","c","r","e","m","e","n","t","a",
            "l">> (* `--runtime incremental` *))
        + TokenCount(s, ts, <<"-","-","r","u","n","t","i","m","e"," ","s","t","u",
                "b">> (* `--runtime stub` *))

\* No path, key or value holds whitespace.
NoWhitespaceInputs ==
    /\ ~HasSpace(source_path)
    /\ ~HasSpace(output_path)
    /\ \A k \in DOMAIN options.flag_use :
        ~HasSpace(k) /\ ~HasSpace(options.flag_use[k])

\* C4 as stated: whatever the options and the paths, the rendered string holds
\* exactly one -O1/-O2/-O3 token and exactly one --runtime token with its value.
C4_Original ==
    Rendered =>
        LET ts == TokenStarts(result)
        IN  /\ OptimizationTokens(result, ts) = 1
            /\ RuntimeTokens(result, ts) = 1
            /\ RuntimeValueTokens(result, ts) = 1

\* C4 amended: the rendered string always holds at least one -O1/-O2/-O3 token
\* and at least one --runtime token followed by its value, and exactly one of
\* each when no path, key or value holds whitespace.
C4_Tokens ==
    Rendered =>
        \E ts \in {TokenStarts(result)} :
            \E no \in {OptimizationTokens(result, ts)},
               nr \in {RuntimeTokens(result, ts)},
               nv \in {RuntimeValueTokens(result, ts)} :
                /\ no >= 1
                /\ nv >= 1
                /\ NoWhitespaceInputs => (no = 1 /\ nr = 1 /\ nv = 1)

\* C4 witness: a rendering of whitespace-free paths and a non-empty flag_use.
C4_Witness ==
    /\ Rendered
    /\ NoWhitespaceInputs
    /\ options.flag_use # <<>>
    /\ source_path # <<>>
    /\ output_path # <<>>

\* ------------------------------------------------------------ C5 .. C7

\* The strings of ts with one space between them.
RECURSIVE SpaceJoined(_)
SpaceJoined(ts) ==
    IF Len(ts) = 0 THEN <<>>
    ELSE IF Len(ts) = 1 THEN ts[1]
    ELSE ts[1] \o <<" ">> \o SpaceJoined(Tail(ts))

\* The `key=value` token of each entry of o.flag_use, in the order it.
Bindings(o, it) == [i \in 1 .. Len(it) |-> it[i] \o <<"=">> \o o.flag_use[it[i]]]

\* The token the trap adds.
TrapBinding == <<"a","b","o","r","t","=","c","u","s","t","o","m","_","a","b","o","r",
        "t">> (* `abort=custom_abort` *)

\* The orders in which the elements of the finite set S can be listed.
Orders(S) ==
    {s \in [1 .. Cardinality(S) -> S] : \A x \in S : \E i \in 1 .. Cardinality(S) : s[i] = x}

\* The clause that stands before the custom bindings clause: --noExportMemory,
\* or the runtime flag when export-memory is enabled.
ClauseBefore(o) ==
    IF ~o.enable_export_memory THEN <<"-","-","n","o","E","x","p","o","r","t","M","e","m","o",
            "r","y"," ">> (* `--noExportMemory ` *)
    ELSE CASE o.runtime = "Minimal" -> <<"-","-","r","u","n","t","i","m","e"," ","m","i","n",
            "i","m","a","l"," ">> (* `--runtime minimal ` *)
           [] o.runtime = "Incremental" -> <<"-","-","r","u","n","t","i","m","e"," ","i","n",
                   "c","r","e","m","e","n","t","a","l"," ">> (* `--runtime incremental ` *)
           [] o.runtime = "Stub" -> <<"-","-","r","u","n","t","i","m","e"," ","s","t","u","b",
                   " ">> (* `--runtime stub ` *)

\* The custom bindings clause without the trap: nothing, or --use and the
\* bindings of flag_use in the order it.
BareClause(o, it) ==
    IF DOMAIN o.flag_use = {} THEN <<>>
    ELSE
        <<"-","-","u","s","e"," ">> (* `--use ` *) \o SpaceJoined(Bindings(o, it)) \o <<" ">>

\* C5: with trap_on_abort false, the rendered string ends with the clause
\* before the bindings when flag_use is empty, and otherwise with that clause
\* followed by `--use `, one key=value token per entry of flag_use (each entry
\* once, in the order the call visited them) and a space: no `--lib .` and no
\* abort=custom_abort is added.
C5_NoTrap ==
    (Rendered /\ ~options.trap_on_abort) =>
        /\ iter \in Orders(DOMAIN options.flag_use)
        /\ EndsWith(result, ClauseBefore(options) \o BareClause(options, iter))

\* C5 witness: two bindings rendered without the trap.
C5_Witness ==
    /\ Rendered
    /\ ~options.trap_on_abort
    /\ Cardinality(DOMAIN options.flag_use) = 2

\* C6: with trap_on_abort true the rendered string ends with `--lib . --use `,
\* the |flag_use| + 1 tokens made of one binding per entry and
\* abort=custom_abort, in some order, and a space; with trap_on_abort false
\* the bindings clause has no `--lib . ` in front of it.
C6_Trap ==
    Rendered =>
        LET tokens == Bindings(options, iter) \o <<TrapBinding>>
        IN  /\ Len(tokens) = Cardinality(DOMAIN options.flag_use) + 1
            /\ options.trap_on_abort =>
                \E p \in Orders(1 .. Len(tokens)) :
                    EndsWith(result,
                        ClauseBefore(options) \o <<"-","-","l","i","b"," ","."," ","-","-","u",
                                "s","e"," ">> (* `--lib . --use ` *)
                            \o SpaceJoined([i \in 1 .. Len(tokens) |-> tokens[p[i]]])
                            \o <<" ">>)
            /\ ~options.trap_on_abort =>
                ~EndsWith(result,
                    ClauseBefore(options) \o <<"-","-","l","i","b"," ",".",
                            " ">> (* `--lib . ` *) \o BareClause(options, iter))

\* C6 witness: a binding rendered with the trap.
C6_Witness ==
    /\ Rendered
    /\ options.trap_on_abort
    /\ options.flag_use # <<>>

\* C7: when flag_use binds abort to V and trap_on_abort is true, the rendered
\* string holds the token abort=V and the token abort=custom_abort at two
\* different places.
C7_DuplicateAbort ==
    (Rendered /\ options.trap_on_abort /\ <<"a","b","o","r",
            "t">> (* `abort` *) \in DOMAIN options.flag_use) =>
        LET user == <<" ","a","b","o","r","t","=">> (* ` abort=` *) \o options.flag_use[<<"a",
                "b","o","r","t">> (* `abort` *)] \o <<" ">>
            trap == <<" ">> \o TrapBinding \o <<" ">>
        IN  \E i \in Starts(result, user) :
                /\ MatchAt(result, user, i)
                /\ \E j \in Starts(result, trap) \ {i} : MatchAt(result, trap, j)

\* C7 witness: a user binding of abort rendered with the trap.
C7_Witness ==
    /\ Rendered
    /\ options.trap_on_abort
    /\ <<"a","b","o","r","t">> (* `abort` *) \in DOMAIN options.flag_use
    /\ options.flag_use[<<"a","b","o","r","t">> (* `abort` *)] # <<"c","u","s","t","o","m","_",
            "a","b","o","r","t">> (* `custom_abort` *)

\* ------------------------------------------------------------------ C10

\* C10: with trap_on_abort true the rendered string ends with `--lib . --use `,
\* the bindings of flag_use in the order the call visited them, then
\* abort=custom_abort and a space: the trap's token is the last token.
C10_TrapLast ==
    (Rendered /\ options.trap_on_abort) =>
        /\ EndsWith(result,
                <<"-","-","l","i","b"," ","."," ","-","-","u","s","e",
                        " ">> (* `--lib . --use ` *)
                    \o SpaceJoined(Bindings(options, iter) \o <<TrapBinding>>) \o <<" ">>)
        /\ EndsWith(result, <<" ">> \o TrapBinding \o <<" ">>)

\* C10 witness: two bindings rendered with the trap.
C10_Witness ==
    /\ Rendered
    /\ options.trap_on_abort
    /\ Cardinality(DOMAIN options.flag_use) = 2

\* ------------------------------------------------------------------ C8

\* s without its last n characters.
LeadingPart(s, n) == SubSeq(s, 1, Len(s) - n)

\* a and b are the same string but for the order of the bindings of o.flag_use:
\* each ends with those bindings in some order, followed by a space or by the
\* trap's token and a space, and what stands before them is the same.
SameButOrder(a, b, o) ==
    \E it1, it2 \in Orders(DOMAIN o.flag_use),
       q \in {<<" ">>, <<" ">> \o TrapBinding \o <<" ">>} :
        LET j1 == SpaceJoined(Bindings(o, it1)) \o q
            j2 == SpaceJoined(Bindings(o, it2)) \o q
        IN  /\ EndsWith(a, j1)
            /\ EndsWith(b, j2)
            /\ LeadingPart(a, Len(j1)) = LeadingPart(b, Len(j2))

\* C8: a further call of to_npx_command on the same options value and paths
\* returns the string of the call before it but for the order of the flag_use
\* bindings, and the very same string when flag_use has at most one entry.
C8_Deterministic ==
    [][(calls >= 1 /\ calls' = calls + 1) =>
            /\ SameButOrder(result, result', options)
            /\ Cardinality(DOMAIN options.flag_use) <= 1 => result' = result]_vars

\* C8 witness: a second call on an options value with two bindings.
C8_Witness ==
    /\ calls >= 2
    /\ Cardinality(DOMAIN options.flag_use) = 2

\* ------------------------------------------------------------------ C9

\* C9: to_npx_command can be called on every options value and paths, each
\* call returns a non-empty string, and it leaves the options value unchanged.
C9_Total ==
    /\ [](calls < MaxCalls => ENABLED ToNpxCommand)
    /\ [][calls' = calls + 1 =>
            /\ options' = options
            /\ result' \in Seq(STRING)
            /\ Len(result') > 0]_vars

\* C9 witness: a rendering of pathological inputs: a binding of the reserved
\* key abort, a binding whose key and value are empty, and empty paths.
C9_Witness ==
    /\ Rendered
    /\ result \in Seq(STRING)
    /\ {<<"a","b","o","r","t">> (* `abort` *), <<>>} \subseteq DOMAIN options.flag_use
    /\ options.flag_use[<<>>] = <<>>
    /\ source_path = <<>>
    /\ output_path = <<>>

=============================================================================
